---- MODULE Spec2Model ----
(***************************************************************************)
(* Replay buffers and target-network updates of the multi-agent (MADDPG)   *)
(* TD3 and SAC policies of h-baselines                                     *)
(* (hbaselines/multi_fcnet/td3.py, hbaselines/multi_fcnet/sac.py).         *)
(*                                                                         *)
(* The policy classes build, per agent key (or once for a shared policy),  *)
(* a replay buffer, the trainable variables of the model and target        *)
(* networks, and the operations that initialise and softly update the      *)
(* target variables.  The replay buffer class itself                       *)
(* (hbaselines/multi_fcnet/replay_buffer.py) and the helper that builds    *)
(* the target update operations (_setup_target_updates of the base policy) *)
(* are not part of the sources at hand; they are modelled from sections 3, *)
(* 4 and 7 of the specification.                                           *)
(*                                                                         *)
(* Every network is abstracted to one scalar trainable variable; numeric   *)
(* values are exact rationals (for the values used here, dyadic fractions, *)
(* float arithmetic is exact as well).                                     *)
(*                                                                         *)
(* Further parts, each with a specification of its own over its own group  *)
(* of variables (the other groups stay None):                              *)
(*   SpecLocked      a buffer shared by a producer and a consumer thread   *)
(*   SpecVecEnv      make_vec_env (hbaselines/ppo/cmd_util.py) and the     *)
(*                   rollout buffers of its workers                        *)
(*   SpecFlowParams  get_flow_params of ring_small.py and                  *)
(*                   highway_single.py                                     *)
(*   SpecArgs        parse_unknown_args (hbaselines/ppo/cmd_util.py)       *)
(*   SpecShapes      the full-action placeholder of the shared policies    *)
(*   SpecHiro        HIROPolicy.step (hbaselines/policies/ddpg.py)         *)
(*   SpecEntropy     the target entropy of the SAC policy                  *)
(***************************************************************************)
EXTENDS Integers, Sequences, FiniteSets, TLC

(***************************************************************************)
(* Bounds of the model.                                                    *)
(***************************************************************************)
MaxCapacity == 3
MaxBatch == 2
MaxAdds == 4
MaxGrad == 3
MaxSoft == 3
MaxLockCapacity == 2
MaxProduced == 3
MaxConsumed == 2
MaxNumEnv == 3
MaxStartIndex == 1
MaxRolloutLen == 2
MaxRollouts == 2
MaxSharedCapacity == 4
MaxArgs == 3
MaxDim == 3
MaxAgents == 3
MaxObs == 1
MaxSteps == 3
MaxRank == 2

None == "None"
Empty == "Empty"

\* the transitions the environment may produce (stored by value)
Transitions == {"A", "B"}

\* the keys of ob_space / ac_space in the non-shared case, in sorted order
AgentSeq == <<"agent0", "agent1">>
Agents == {AgentSeq[i] : i \in 1..Len(AgentSeq)}
\* the one entry standing for the attributes of a shared policy (not a dict)
SharedKey == "shared"

(***************************************************************************)
(* Exact rational numbers n/d, d > 0, in lowest terms.                     *)
(***************************************************************************)
Abs(x) == IF x < 0 THEN -x ELSE x

RECURSIVE GCD(_, _)
GCD(a, b) == IF b = 0 THEN a ELSE GCD(b, a % b)

Rat(n, d) ==
    LET g == GCD(Abs(n), d)
    IN  [n |-> n \div g, d |-> d \div g]

RatAdd(x, y) == Rat(x.n * y.d + y.n * x.d, x.d * y.d)
RatSub(x, y) == Rat(x.n * y.d - y.n * x.d, x.d * y.d)
RatMul(x, y) == Rat(x.n * y.n, x.d * y.d)

\* the smoothing coefficients tried: 0, 1/2, 1
Taus == {Rat(0, 1), Rat(1, 2), Rat(1, 1)}
\* the values a variable initialiser or a gradient step may produce
Vals == {Rat(0, 1), Rat(2, 1)}

VARIABLES
    algo,                \* "td3" or "sac": which MultiFeedForwardPolicy
    shared,              \* self.shared
    buffer_size,         \* self.buffer_size
    batch_size,          \* self.batch_size
    tau,                 \* self.tau
    tf_init,             \* the values the variable initialisers produce
    pc,                  \* "new", "constructed", "config_error",
                         \* "initialized", "init_error"
    replay_buffer,       \* self.replay_buffer: key -> buffer
    trainable,           \* the graph's trainable variables, in creation order
    value,               \* the session's value of every trainable variable
    target_init_updates, \* self.target_init_updates: None or key -> op
    target_soft_updates, \* self.target_soft_updates: None or key -> op
    optimizer,           \* key -> variables the agent's optimizers update
    updating,            \* the key whose gradient update of the running
                         \* iteration is done and whose soft update is due
    added,               \* history: key -> transitions added, in order
    last,                \* the last call: its name, key, result and error
    pre_buffer,          \* self.replay_buffer before the last call
    pre_value,           \* value before the last call
    history,             \* history: initialize / gradient / soft_update calls
    nAdds, nGrad, nSoft  \* calls made so far

\* the policy, its buffers and its target updates
maddpg_vars == <<algo, shared, buffer_size, batch_size, tau, tf_init, pc,
                 replay_buffer, trainable, value, target_init_updates,
                 target_soft_updates, optimizer, updating, added, last,
                 pre_buffer, pre_value, history, nAdds, nGrad, nSoft>>

VARIABLES
    fn,                  \* the function called
    args,                \* its arguments
    locals,              \* its local variables while it runs
    retval               \* None while it runs, then what it returned

\* one call of a function of the parameter and command-line helpers
fn_vars == <<fn, args, locals, retval>>

VARIABLES
    lock,                \* the buffer's lock: None or the thread holding it
    slots,               \* the buffer's storage, one record of fields a slot
    cursor,              \* the buffer's write cursor
    nvalid,              \* the buffer's count of valid entries
    producer,            \* the environment-stepping thread
    consumer,            \* the gradient-computation thread
    nProduced, nConsumed \* add and sample calls finished so far

\* a replay buffer shared by a producer and a consumer thread
lock_vars == <<lock, slots, cursor, nvalid, producer, consumer, nProduced,
               nConsumed>>

VARIABLES
    vec_args,            \* the arguments of make_vec_env
    vec_env,             \* None, then the vectorised environment built
    phase,               \* "new", "rollout", "update"
    rollout,             \* worker -> its transient rollout buffer
    shared_buffer,       \* the one replay buffer the workers feed
    pre_shared,          \* history: shared_buffer when the phase began
    merged,              \* history: the transitions the last merge was given
    nRollouts            \* rollout phases finished so far

\* vectorised environments and their rollout buffers
vec_vars == <<vec_args, vec_env, phase, rollout, shared_buffer, pre_shared,
              merged, nRollouts>>

VARIABLES
    hiro,                \* the fields of a HIROPolicy object
    prev_obs,            \* the observation of the previous step
    hiro_last,           \* the last call of step and what it returned
    nSteps               \* step calls made so far

\* the hierarchical policy
hiro_vars == <<hiro, prev_obs, hiro_last, nSteps>>

vars == <<maddpg_vars, fn_vars, lock_vars, vec_vars, hiro_vars>>

\* what each part of the program leaves alone
not_maddpg_vars == <<fn_vars, lock_vars, vec_vars, hiro_vars>>
not_fn_vars == <<maddpg_vars, lock_vars, vec_vars, hiro_vars>>
not_lock_vars == <<maddpg_vars, fn_vars, vec_vars, hiro_vars>>
not_vec_vars == <<maddpg_vars, fn_vars, lock_vars, hiro_vars>>
not_hiro_vars == <<maddpg_vars, fn_vars, lock_vars, vec_vars>>

\* the empty dict
EmptyDict == [k \in {} |-> None]

Keys(sh) == IF sh THEN {SharedKey} ELSE Agents
KeySeq(sh) == IF sh THEN <<SharedKey>> ELSE AgentSeq
\* the variable scope an agent's variables are created in
KeyScope(k) == IF k = SharedKey THEN <<>> ELSE <<k>>

Range(s) == {s[i] : i \in 1..Len(s)}

IsPrefix(p, s) ==
    /\ Len(p) <= Len(s)
    /\ \A i \in 1..Len(p) : p[i] = s[i]

(***************************************************************************)
(* The replay buffer (sections 3, 4.1 and 7 of the specification): a       *)
(* fixed-capacity circular store with a write cursor and a count of valid  *)
(* entries.                                                                *)
(***************************************************************************)

\* a non-positive capacity or batch size is refused at construction
ReplayBufferConfigError(capacity, batch) == capacity <= 0 \/ batch <= 0

ReplayBuffer(capacity, batch) ==
    [error      |-> ReplayBufferConfigError(capacity, batch),
     maxsize    |-> capacity,
     batch_size |-> batch,
     storage    |-> [i \in 0..(capacity - 1) |-> Empty],
     next_idx   |-> 0,
     count      |-> 0]

\* a variant of add that always writes the first slot
add_first_slot(buf, t) ==
    [buf EXCEPT !.storage[0] = t,
                !.next_idx = (buf.next_idx + 1) % buf.maxsize,
                !.count = IF buf.count < buf.maxsize
                          THEN buf.count + 1 ELSE buf.count]

\* add(transition): write at the cursor, advance it modulo the capacity,
\* increment the count up to the capacity
add(buf, t) ==
    [buf EXCEPT !.storage[buf.next_idx] = t,
                !.next_idx = (buf.next_idx + 1) % buf.maxsize,
                !.count = IF buf.count < buf.maxsize
                          THEN buf.count + 1 ELSE buf.count]

\* size(): the count of valid entries
size(buf) == buf.count

\* the index vectors sample may draw: batch_size indices from [0, count),
\* independently, with replacement
sample_indices(buf) == [1..buf.batch_size -> 0..(buf.count - 1)]

\* the batch returned for the drawn indices
encode_sample(buf, idx) == [i \in 1..buf.batch_size |-> buf.storage[idx[i]]]

\* variants of sample: one that returns an empty batch instead of failing,
\* one that consumes the oldest entry it may draw
sample_silent(buf, idx) ==
    IF buf.count = 0
    THEN [buffer |-> buf, batch |-> <<>>, err |-> None]
    ELSE [buffer |-> buf, batch |-> encode_sample(buf, idx), err |-> None]
sample_consuming(buf, idx) ==
    IF buf.count = 0
    THEN [buffer |-> buf, batch |-> <<>>, err |-> "InsufficientDataError"]
    ELSE [buffer |-> [buf EXCEPT !.count = buf.count - 1],
          batch |-> encode_sample(buf, idx), err |-> None]

\* sample(): InsufficientDataError on an empty buffer, else the batch for the
\* indices drawn; the buffer is left as it is
sample(buf, idx) ==
    IF buf.count = 0
    THEN [buffer |-> buf, batch |-> <<>>, err |-> "InsufficientDataError"]
    ELSE [buffer |-> buf, batch |-> encode_sample(buf, idx), err |-> None]

MultiReplayBuffer(capacity, batch) == ReplayBuffer(capacity, batch)
SharedReplayBuffer(capacity, batch) == ReplayBuffer(capacity, batch)

(***************************************************************************)
(* Trainable variables and the target update operations.                   *)
(***************************************************************************)

\* the trainable variables whose name lies under scope `name`, in creation
\* order
get_trainable_vars(tv, name) == SelectSeq(tv, LAMBDA v : IsPrefix(name, v))

\* The operations initialize() and soft_update() run: every variable under
\* the target scope is paired with its counterpart under the model scope.
setup_target_updates(tv, model_scope, target_scope, scope, t) ==
    LET mv == get_trainable_vars(tv, scope \o model_scope)
        gv == get_trainable_vars(tv, scope \o target_scope)
        pairs == [i \in 1..Len(gv) |-> [model |-> mv[i], target |-> gv[i]]]
    IN  [init |-> [pairs |-> pairs],
         soft |-> [pairs |-> pairs, tau |-> t]]

\* the model variable an operation pairs with target variable v
ModelOf(op, v) ==
    LET i == CHOOSE j \in 1..Len(op.pairs) : op.pairs[j].target = v
    IN  op.pairs[i].model

TargetsOf(op) == {op.pairs[i].target : i \in 1..Len(op.pairs)}

\* initialize(): target := online, exactly
run_init(op, val) ==
    [v \in DOMAIN val |->
        IF v \in TargetsOf(op) THEN val[ModelOf(op, v)] ELSE val[v]]

\* soft_update(tau): target := (1 - tau) * target + tau * online
soft_update(target, online, t) ==
    RatAdd(RatMul(RatSub(Rat(1, 1), t), target), RatMul(t, online))

run_soft(op, val) ==
    [v \in DOMAIN val |->
        IF v \in TargetsOf(op)
        THEN soft_update(val[v], val[ModelOf(op, v)], op.tau)
        ELSE val[v]]

\* an attribute left at None, and one holding operations
NoneOps == [is_none |-> TRUE, ops |-> EmptyDict]
Ops(f) == [is_none |-> FALSE, ops |-> f]

(***************************************************************************)
(* TD3: MultiFeedForwardPolicy._setup_maddpg and the methods it calls.     *)
(* A setup yields the attributes it assigns: the buffers, the trainable    *)
(* variables created, the target update operations and, per agent, the     *)
(* variable lists handed to the optimizers.                                *)
(***************************************************************************)

\* variants of TD3_buffer_args with a slip in the arguments passed
TD3_buffer_args_larger(bsz, b) == [buffer_size |-> bsz + 1, batch_size |-> b]
TD3_buffer_args_batch(bsz, b) == [buffer_size |-> bsz, batch_size |-> b + 1]
TD3_buffer_args_clamped(bsz, b) ==
    [buffer_size |-> IF bsz < 1 THEN 1 ELSE bsz,
     batch_size  |-> IF b < 1 THEN 1 ELSE b]

\* the arguments _setup_agent passes to MultiReplayBuffer
TD3_buffer_args(bsz, b) == [buffer_size |-> bsz, batch_size |-> b]

\* _setup_agent, in variable scope sc: the replay buffer, then the actor and
\* the two centralized critics under "model" and the actor under "target"
TD3_setup_agent(sc, bsz, b) ==
    LET a == TD3_buffer_args(bsz, b)
    IN  [replay_buffer |-> MultiReplayBuffer(a.buffer_size, a.batch_size),
         created |-> << sc \o <<"model", "pi">>,
                        sc \o <<"model", "centralized_qf_0">>,
                        sc \o <<"model", "centralized_qf_1">>,
                        sc \o <<"target", "pi">> >>]

QfName(i) == IF i = 0 THEN "qf_0" ELSE "qf_1"

\* _setup_critic_update, in variable scope sc with outer scope term `scope`:
\* the two target critics, then one optimizer per critic loss over the
\* trainable variables under '<scope>/model/qf_i/'
TD3_setup_critic_update(tv, sc, scope) ==
    LET created == << sc \o <<"target", "qf_0">>, sc \o <<"target", "qf_1">> >>
    IN  [created  |-> created,
         var_list |-> [i \in 0..1 |->
             get_trainable_vars(tv \o created,
                                scope \o <<"model", QfName(i)>>)]]

\* _setup_actor_update: the optimizer over the variables under
\* '<scope>/model/pi/' (the critic is reused, no variable is created)
TD3_setup_actor_update(tv, scope) ==
    get_trainable_vars(tv, scope \o <<"model", "pi">>)

\* variants of TD3_target_update_args: the two scopes exchanged, and the
\* complement of the rate passed
TD3_target_update_args_swapped(t) ==
    [model_scope |-> <<"target">>, target_scope |-> <<"model">>, tau |-> t]
TD3_target_update_args_complement(t) ==
    [model_scope |-> <<"model">>, target_scope |-> <<"target">>,
     tau |-> RatSub(Rat(1, 1), t)]

\* the scopes and rate _setup_maddpg passes to _setup_target_updates
TD3_target_update_args(t) ==
    [model_scope |-> <<"model">>, target_scope |-> <<"target">>, tau |-> t]

\* one agent's part of the update setup: critic update, target updates,
\* actor update
TD3_setup_updates(tv, sc, scope, t) ==
    LET c   == TD3_setup_critic_update(tv, sc, scope)
        tv2 == tv \o c.created
        a   == TD3_target_update_args(t)
        u   == setup_target_updates(tv2, a.model_scope, a.target_scope,
                                    scope, a.tau)
    IN  [trainable |-> tv2,
         init      |-> u.init,
         soft      |-> u.soft,
         optimizer |-> [actor  |-> TD3_setup_actor_update(tv2, scope),
                        critic |-> c.var_list]]

\* first loop of the non-shared branch: _setup_agent for every key, sorted
RECURSIVE TD3_agents(_, _, _)
TD3_agents(i, bsz, b) ==
    IF i > Len(AgentSeq) THEN [replay_buffer |-> EmptyDict, created |-> <<>>]
    ELSE LET key  == AgentSeq[i]
             a    == TD3_setup_agent(<<key>>, bsz, b)
             rest == TD3_agents(i + 1, bsz, b)
         IN  [replay_buffer |-> (key :> a.replay_buffer) @@ rest.replay_buffer,
              created       |-> a.created \o rest.created]

\* a variant of TD3_scope_i that names the first agent whatever the key
TD3_scope_i_first(key) == <<AgentSeq[1]>>

\* the outer scope term of one key in the non-shared branch: the key itself
\* (the policy's own scope is None)
TD3_scope_i(key) == <<key>>

\* second loop of the non-shared branch: the update procedures of every key
RECURSIVE TD3_updates(_, _, _, _)
TD3_updates(i, tv, t, acc) ==
    IF i > Len(AgentSeq) THEN [acc EXCEPT !.trainable = tv]
    ELSE LET key == AgentSeq[i]
             u   == TD3_setup_updates(tv, <<key>>, TD3_scope_i(key), t)
         IN  TD3_updates(i + 1, u.trainable, t,
                 [acc EXCEPT !.init      = (key :> u.init) @@ acc.init,
                             !.soft      = (key :> u.soft) @@ acc.soft,
                             !.optimizer = (key :> u.optimizer) @@ acc.optimizer])

TD3_setup_maddpg(sh, bsz, b, t) ==
    IF sh
    THEN LET a == TD3_setup_agent(<<>>, bsz, b)
             u == TD3_setup_updates(a.created, <<>>, <<>>, t)
         IN  [replay_buffer       |-> SharedKey :> a.replay_buffer,
              trainable           |-> u.trainable,
              target_init_updates |-> Ops(SharedKey :> u.init),
              target_soft_updates |-> Ops(SharedKey :> u.soft),
              optimizer           |-> SharedKey :> u.optimizer]
    ELSE LET a == TD3_agents(1, bsz, b)
             u == TD3_updates(1, a.created, t,
                      [trainable |-> a.created, init |-> EmptyDict,
                       soft |-> EmptyDict, optimizer |-> EmptyDict])
         IN  [replay_buffer       |-> a.replay_buffer,
              trainable           |-> u.trainable,
              target_init_updates |-> Ops(u.init),
              target_soft_updates |-> Ops(u.soft),
              optimizer           |-> u.optimizer]

(***************************************************************************)
(* SAC: MultiFeedForwardPolicy._setup_maddpg and the methods it calls.     *)
(***************************************************************************)

\* _setup_agent, in variable scope sc: the actor, the centralized value
\* functions (vf, qf1, qf2) and log_alpha under "model", the value function
\* under "target"
SAC_setup_agent(sc) ==
    << sc \o <<"model", "pi">>,
       sc \o <<"model", "centralized_value_fns", "vf">>,
       sc \o <<"model", "centralized_value_fns", "qf1">>,
       sc \o <<"model", "centralized_value_fns", "qf2">>,
       sc \o <<"model", "log_alpha">>,
       sc \o <<"target", "centralized_value_fns", "vf">> >>

\* a variant of SAC_buffer_args with the two arguments exchanged
SAC_buffer_args_swapped(bsz, b) == [buffer_size |-> b, batch_size |-> bsz]

\* the arguments the SAC setups pass to the replay buffers
SAC_buffer_args(bsz, b) == [buffer_size |-> bsz, batch_size |-> b]

\* _setup_maddpg_shared: the shared buffer and the agents' (shared)
\* variables; no update procedure is set up, the attributes stay None
SAC_setup_maddpg_shared(bsz, b) ==
    LET a == SAC_buffer_args(bsz, b)
    IN  [replay_buffer       |->
             SharedKey :> SharedReplayBuffer(a.buffer_size, a.batch_size),
         trainable           |-> SAC_setup_agent(<<>>),
         target_init_updates |-> NoneOps,
         target_soft_updates |-> NoneOps,
         optimizer           |-> EmptyDict]

\* _setup_critic_update: the optimizer over the variables under
\* '<scope>/model/centralized_value_fns'
SAC_setup_critic_update(tv, scope) ==
    get_trainable_vars(tv, scope \o <<"model", "centralized_value_fns">>)

\* _setup_actor_update: the alpha optimizer over log_alpha and the actor
\* optimizer over the variables under '<scope>/model/pi/'
SAC_setup_actor_update(tv, sc, scope) ==
    [alpha |-> << sc \o <<"model", "log_alpha">> >>,
     actor |-> get_trainable_vars(tv, scope \o <<"model", "pi">>)]

\* a variant of SAC_target_update_args passing the complement of the rate
SAC_target_update_args_complement(t) ==
    [model_scope  |-> <<"model", "centralized_value_fns", "vf">>,
     target_scope |-> <<"target", "centralized_value_fns", "vf">>,
     tau          |-> RatSub(Rat(1, 1), t)]

\* the scopes and rate _setup_maddpg_independent passes to
\* _setup_target_updates
SAC_target_update_args(t) ==
    [model_scope  |-> <<"model", "centralized_value_fns", "vf">>,
     target_scope |-> <<"target", "centralized_value_fns", "vf">>,
     tau          |-> t]

\* first loop of _setup_maddpg_independent: a buffer and the variables of
\* every key, sorted
RECURSIVE SAC_agents(_, _, _)
SAC_agents(i, bsz, b) ==
    IF i > Len(AgentSeq) THEN [replay_buffer |-> EmptyDict, created |-> <<>>]
    ELSE LET key  == AgentSeq[i]
             a    == SAC_buffer_args(bsz, b)
             rest == SAC_agents(i + 1, bsz, b)
         IN  [replay_buffer |->
                  (key :> MultiReplayBuffer(a.buffer_size, a.batch_size))
                      @@ rest.replay_buffer,
              created       |-> SAC_setup_agent(<<key>>) \o rest.created]

\* second loop of _setup_maddpg_independent: the update procedures
RECURSIVE SAC_updates(_, _, _, _)
SAC_updates(i, tv, t, acc) ==
    IF i > Len(AgentSeq) THEN acc
    ELSE LET key == AgentSeq[i]
             a   == SAC_target_update_args(t)
             u   == setup_target_updates(tv, a.model_scope, a.target_scope,
                                         <<key>>, a.tau)
             o   == SAC_setup_actor_update(tv, <<key>>, <<key>>)
         IN  SAC_updates(i + 1, tv, t,
                 [acc EXCEPT !.init = (key :> u.init) @@ acc.init,
                             !.soft = (key :> u.soft) @@ acc.soft,
                             !.optimizer =
                                 (key :> [actor  |-> o.actor,
                                          alpha  |-> o.alpha,
                                          critic |->
                                              SAC_setup_critic_update(tv, <<key>>)])
                                 @@ acc.optimizer])

SAC_setup_maddpg_independent(bsz, b, t) ==
    LET a == SAC_agents(1, bsz, b)
        u == SAC_updates(1, a.created, t,
                 [init |-> EmptyDict, soft |-> EmptyDict,
                  optimizer |-> EmptyDict])
    IN  [replay_buffer       |-> a.replay_buffer,
         trainable           |-> a.created,
         target_init_updates |-> Ops(u.init),
         target_soft_updates |-> Ops(u.soft),
         optimizer           |-> u.optimizer]

SAC_setup_maddpg(sh, bsz, b, t) ==
    IF sh THEN SAC_setup_maddpg_shared(bsz, b)
    ELSE SAC_setup_maddpg_independent(bsz, b, t)

(***************************************************************************)
(* The policy's life: construction (__init__ runs _setup_maddpg),          *)
(* initialize(), then the training loop's calls.                           *)
(***************************************************************************)

setup_maddpg(a, sh, bsz, b, t) ==
    IF a = "td3" THEN TD3_setup_maddpg(sh, bsz, b, t)
    ELSE SAC_setup_maddpg(sh, bsz, b, t)

\* a buffer constructor refused its arguments: the setup raises
SetupRaises(r) ==
    \E k \in DOMAIN r.replay_buffer : r.replay_buffer[k].error

\* the parts of the program a specification does not exercise
NoMaddpg ==
    /\ algo = None /\ shared = None /\ buffer_size = None
    /\ batch_size = None /\ tau = None /\ tf_init = None /\ pc = None
    /\ replay_buffer = None /\ trainable = None /\ value = None
    /\ target_init_updates = None /\ target_soft_updates = None
    /\ optimizer = None /\ updating = None /\ added = None /\ last = None
    /\ pre_buffer = None /\ pre_value = None /\ history = None
    /\ nAdds = None /\ nGrad = None /\ nSoft = None

NoFn == fn = None /\ args = None /\ locals = None /\ retval = None

NoLock ==
    /\ lock = None /\ slots = None /\ cursor = None /\ nvalid = None
    /\ producer = None /\ consumer = None /\ nProduced = None
    /\ nConsumed = None

NoVec ==
    /\ vec_args = None /\ vec_env = None /\ phase = None /\ rollout = None
    /\ shared_buffer = None /\ pre_shared = None /\ merged = None
    /\ nRollouts = None

NoHiro == hiro = None /\ prev_obs = None /\ hiro_last = None /\ nSteps = None

NoCall == [op |-> "none", key |-> None, ret |-> <<>>, err |-> None]

InitCommon ==
    /\ algo \in {"td3", "sac"}
    /\ shared \in BOOLEAN
    /\ pc = "new"
    /\ replay_buffer = EmptyDict
    /\ trainable = <<>>
    /\ value = EmptyDict
    /\ target_init_updates = NoneOps
    /\ target_soft_updates = NoneOps
    /\ optimizer = EmptyDict
    /\ added = EmptyDict
    /\ last = NoCall
    /\ pre_buffer = EmptyDict
    /\ pre_value = EmptyDict
    /\ nAdds = 0
    /\ nGrad = 0
    /\ nSoft = 0
    /\ updating = None
    /\ history = <<>>
    /\ NoFn /\ NoLock /\ NoVec /\ NoHiro

\* every buffer configuration, one rate, one initial value
InitReplay ==
    /\ InitCommon
    /\ buffer_size \in -1..MaxCapacity
    /\ batch_size \in -1..MaxBatch
    /\ tau = Rat(1, 2)
    /\ tf_init = [model |-> Rat(0, 1), target |-> Rat(0, 1)]

\* every rate and initial value, one buffer configuration
InitTarget ==
    /\ InitCommon
    /\ buffer_size = 2
    /\ batch_size = 1
    /\ tau \in Taus
    /\ tf_init \in [model : Vals, target : Vals]

\* __init__: the setup, then the variables take their initial values
Policy_init ==
    /\ pc = "new"
    /\ LET r == setup_maddpg(algo, shared, buffer_size, batch_size, tau)
       IN  IF SetupRaises(r)
           THEN /\ pc' = "config_error"
                /\ last' = [op |-> "__init__", key |-> None, ret |-> <<>>,
                            err |-> "ConfigurationError"]
                /\ UNCHANGED <<replay_buffer, trainable, value,
                               target_init_updates, target_soft_updates,
                               optimizer, added>>
           ELSE /\ pc' = "constructed"
                /\ last' = [op |-> "__init__", key |-> None, ret |-> <<>>,
                            err |-> None]
                /\ replay_buffer' = r.replay_buffer
                /\ trainable' = r.trainable
                /\ value' = [v \in Range(r.trainable) |->
                                IF "model" \in Range(v) THEN tf_init.model
                                ELSE tf_init.target]
                /\ target_init_updates' = r.target_init_updates
                /\ target_soft_updates' = r.target_soft_updates
                /\ optimizer' = r.optimizer
                /\ added' = [k \in DOMAIN r.replay_buffer |-> <<>>]
    /\ pre_buffer' = replay_buffer
    /\ pre_value' = value
    /\ UNCHANGED <<algo, shared, buffer_size, batch_size, tau, tf_init,
                   updating, history, nAdds, nGrad, nSoft>>
    /\ UNCHANGED not_maddpg_vars

Running == pc \in {"constructed", "initialized"}

\* replay_buffer[k].add(t)
Add(k, t) ==
    /\ Running
    /\ k \in DOMAIN replay_buffer
    /\ nAdds < MaxAdds
    /\ replay_buffer' = [replay_buffer EXCEPT ![k] = add(@, t)]
    /\ added' = [added EXCEPT ![k] = Append(@, t)]
    /\ nAdds' = nAdds + 1
    /\ last' = [op |-> "add", key |-> k, ret |-> <<>>, err |-> None]
    /\ pre_buffer' = replay_buffer
    /\ pre_value' = value
    /\ UNCHANGED <<algo, shared, buffer_size, batch_size, tau, tf_init, pc,
                   trainable, value, target_init_updates,
                   target_soft_updates, optimizer, updating, history, nGrad,
                   nSoft>>
    /\ UNCHANGED not_maddpg_vars

\* replay_buffer[k].sample()
Sample(k) ==
    /\ Running
    /\ k \in DOMAIN replay_buffer
    /\ \E idx \in (IF replay_buffer[k].count = 0 THEN {<<>>}
                   ELSE sample_indices(replay_buffer[k])) :
          LET r == sample(replay_buffer[k], idx)
          IN  /\ replay_buffer' = [replay_buffer EXCEPT ![k] = r.buffer]
              /\ last' = [op |-> "sample", key |-> k, ret |-> r.batch,
                          err |-> r.err]
    /\ pre_buffer' = replay_buffer
    /\ pre_value' = value
    /\ UNCHANGED <<algo, shared, buffer_size, batch_size, tau, tf_init, pc,
                   trainable, value, target_init_updates,
                   target_soft_updates, optimizer, updating, history, added,
                   nAdds, nGrad, nSoft>>
    /\ UNCHANGED not_maddpg_vars

\* replay_buffer[k].size()
Size(k) ==
    /\ Running
    /\ k \in DOMAIN replay_buffer
    /\ last' = [op |-> "size", key |-> k, ret |-> size(replay_buffer[k]),
                err |-> None]
    /\ pre_buffer' = replay_buffer
    /\ pre_value' = value
    /\ UNCHANGED <<algo, shared, buffer_size, batch_size, tau, tf_init, pc,
                   replay_buffer, trainable, value, target_init_updates,
                   target_soft_updates, optimizer, updating, history, added,
                   nAdds, nGrad, nSoft>>
    /\ UNCHANGED not_maddpg_vars

NextReplay ==
    \/ Policy_init
    \/ \E k \in Agents \cup {SharedKey}, t \in Transitions : Add(k, t)
    \/ \E k \in Agents \cup {SharedKey} : Sample(k)
    \/ \E k \in Agents \cup {SharedKey} : Size(k)

SpecReplay == InitReplay /\ [][NextReplay]_vars

(***************************************************************************)
(* initialize(), gradient steps and soft updates.                          *)
(***************************************************************************)

\* the training loop (section 5 of the specification; the policies' own
\* _update_maddpg is a placeholder): initialize() is called once, after the
\* construction; an iteration runs the gradient update of an agent, then
\* triggers its soft update
initialize_due(p) == p = "constructed"

gradient_update_due(p, u) == p = "initialized" /\ u = None

soft_update_due_unordered(p, u, k) == p \in {"constructed", "initialized"}

soft_update_due(p, u, k) == p = "initialized" /\ u = k

\* Session.run on an attribute: None is no fetch (TypeError); an operation,
\* or a dict of operations, is run
RECURSIVE run_init_seq(_, _, _, _)
run_init_seq(ops, keys, i, val) ==
    IF i > Len(keys) THEN val
    ELSE run_init_seq(ops, keys, i + 1,
                      IF keys[i] \in DOMAIN ops
                      THEN run_init(ops[keys[i]], val) ELSE val)

sess_run_init(fetches, val) ==
    IF fetches.is_none
    THEN [value |-> val, err |-> "TypeError"]
    ELSE [value |-> run_init_seq(fetches.ops, <<SharedKey>> \o AgentSeq, 1, val),
          err   |-> None]

\* TD3 _initialize_maddpg: the one operation if shared, else the operation
\* of every key in turn
TD3_initialize_maddpg(sh, fetches, val) ==
    IF sh
    THEN sess_run_init(fetches, val)
    ELSE [value |-> run_init_seq(fetches.ops, AgentSeq, 1, val),
          err   |-> None]

\* SAC _initialize_maddpg: the attribute is run as it is
SAC_initialize_maddpg(fetches, val) == sess_run_init(fetches, val)

Initialize ==
    /\ initialize_due(pc)
    /\ LET r == IF algo = "td3"
                THEN TD3_initialize_maddpg(shared, target_init_updates, value)
                ELSE SAC_initialize_maddpg(target_init_updates, value)
       IN  /\ value' = r.value
           /\ pc' = IF r.err = None THEN "initialized" ELSE "init_error"
           /\ last' = [op |-> "initialize", key |-> None, ret |-> <<>>,
                       err |-> r.err]
    /\ pre_buffer' = replay_buffer
    /\ pre_value' = value
    /\ history' = Append(history, [op |-> "initialize", key |-> None])
    /\ UNCHANGED <<algo, shared, buffer_size, batch_size, tau, tf_init,
                   replay_buffer, trainable, target_init_updates,
                   target_soft_updates, optimizer, updating, added, nAdds,
                   nGrad, nSoft>>
    /\ UNCHANGED not_maddpg_vars

\* the variables the optimizers of one agent update
OptimizedVars(a, o) ==
    IF a = "td3"
    THEN Range(o.actor) \cup Range(o.critic[0]) \cup Range(o.critic[1])
    ELSE Range(o.actor) \cup Range(o.alpha) \cup Range(o.critic)

\* a gradient update of agent k: its optimizers write the online variables
GradientUpdate(k, x) ==
    /\ gradient_update_due(pc, updating)
    /\ k \in DOMAIN optimizer
    /\ nGrad < MaxGrad
    /\ updating' = k
    /\ history' = Append(history, [op |-> "gradient", key |-> k])
    /\ value' = [v \in DOMAIN value |->
                    IF v \in OptimizedVars(algo, optimizer[k]) THEN x
                    ELSE value[v]]
    /\ nGrad' = nGrad + 1
    /\ last' = [op |-> "gradient", key |-> k, ret |-> <<>>, err |-> None]
    /\ pre_buffer' = replay_buffer
    /\ pre_value' = value
    /\ UNCHANGED <<algo, shared, buffer_size, batch_size, tau, tf_init, pc,
                   replay_buffer, trainable, target_init_updates,
                   target_soft_updates, optimizer, added, nAdds, nSoft>>
    /\ UNCHANGED not_maddpg_vars

\* the soft update operation of agent k is run
SoftUpdate(k) ==
    /\ soft_update_due(pc, updating, k)
    /\ ~target_soft_updates.is_none
    /\ k \in DOMAIN target_soft_updates.ops
    /\ nSoft < MaxSoft
    /\ value' = run_soft(target_soft_updates.ops[k], value)
    /\ nSoft' = nSoft + 1
    /\ updating' = None
    /\ history' = Append(history, [op |-> "soft_update", key |-> k])
    /\ last' = [op |-> "soft_update", key |-> k, ret |-> <<>>, err |-> None]
    /\ pre_buffer' = replay_buffer
    /\ pre_value' = value
    /\ UNCHANGED <<algo, shared, buffer_size, batch_size, tau, tf_init, pc,
                   replay_buffer, trainable, target_init_updates,
                   target_soft_updates, optimizer, added, nAdds, nGrad>>
    /\ UNCHANGED not_maddpg_vars

NextTarget ==
    \/ Policy_init
    \/ Initialize
    \/ \E k \in Agents \cup {SharedKey}, x \in Vals : GradientUpdate(k, x)
    \/ \E k \in Agents \cup {SharedKey} : SoftUpdate(k)

SpecTarget == InitTarget /\ [][NextTarget]_vars

(***************************************************************************)
(* Properties of the replay buffer.                                        *)
(***************************************************************************)

Min(a, b) == IF a < b THEN a ELSE b

\* the transitions a buffer holds in its valid slots
Stored(buf) == {buf.storage[i] : i \in 0..(buf.count - 1)}
\* how often transition t is held
StoredCount(buf, t) == Cardinality({i \in 0..(buf.count - 1) : buf.storage[i] = t})
\* how often t is among the last m elements of sequence h
RecentCount(h, m, t) ==
    Cardinality({j \in (Len(h) - m + 1)..Len(h) : h[j] = t})

\* the buffer a history of adds leaves, from a fresh buffer
RECURSIVE AddAll(_, _, _)
AddAll(buf, h, i) == IF i > Len(h) THEN buf ELSE AddAll(add(buf, h[i]), h, i + 1)

\* C1: with the policy's buffer_size as capacity C, count <= C holds in every
\* reachable state and size() never returns more than C.
C1_CountWithinCapacity ==
    /\ \A k \in DOMAIN replay_buffer : replay_buffer[k].count <= buffer_size
    /\ last.op = "size" => last.ret <= buffer_size

\* more adds than the capacity were made and size() returned the capacity
C1_Witness ==
    /\ last.op = "size"
    /\ Len(added[last.key]) > buffer_size
    /\ last.ret = buffer_size

\* C2: after n adds the buffer holds exactly the last min(n, C) transitions
\* added, and a sample returns none but these.
C2_RetainsMostRecent ==
    \A k \in DOMAIN replay_buffer :
        LET buf == replay_buffer[k]
            h   == added[k]
            m   == Min(Len(h), buffer_size)
        IN  /\ buf.count = m
            /\ \A t \in Transitions \cup {Empty} :
                   StoredCount(buf, t) = RecentCount(h, m, t)
            /\ (last.op = "sample" /\ last.key = k /\ last.err = None) =>
                   \A i \in 1..Len(last.ret) :
                       \E j \in (Len(h) - m + 1)..Len(h) : last.ret[i] = h[j]

\* capacity 3, adds A, B, B, B: three entries are held, A is evicted and a
\* sample was drawn
C2_Witness ==
    /\ buffer_size = 3
    /\ last.op = "sample"
    /\ added[last.key] = <<"A", "B", "B", "B">>
    /\ replay_buffer[last.key].count = 3
    /\ "A" \notin Stored(replay_buffer[last.key])

C3_SampleFromStored ==
    (last.op = "sample" /\ pre_buffer[last.key].count > 0) =>
        /\ last.err = None
        /\ Len(last.ret) = batch_size
        /\ \A i \in 1..Len(last.ret) :
               last.ret[i] \in Stored(pre_buffer[last.key])

\* a batch of two drawn from a buffer holding one transition
C3_Witness ==
    /\ last.op = "sample"
    /\ pre_buffer[last.key].count = 1
    /\ batch_size = 2
    /\ Len(last.ret) = 2

\* C4: a sample from an empty buffer ends in InsufficientDataError, handed
\* to the caller, and leaves the buffer as it was.
C4_EmptySampleFails ==
    (last.op = "sample" /\ pre_buffer[last.key].count = 0) =>
        /\ last.err = "InsufficientDataError"
        /\ last.ret = <<>>
        /\ replay_buffer = pre_buffer

\* a sample was tried on an empty buffer
C4_Witness ==
    /\ last.op = "sample"
    /\ pre_buffer[last.key].count = 0
    /\ last.err = "InsufficientDataError"

\* C5: sample never changes a buffer; the buffers are what the adds alone
\* leave, however many samples were drawn in between.
C5_SampleDoesNotMutate ==
    /\ last.op = "sample" => replay_buffer = pre_buffer
    /\ \A k \in DOMAIN replay_buffer :
           replay_buffer[k] =
               AddAll(ReplayBuffer(buffer_size, batch_size), added[k], 1)

\* a successful sample between adds: the buffer is full and wrapped around
C5_Witness ==
    /\ last.op = "sample"
    /\ last.err = None
    /\ Len(added[last.key]) > buffer_size
    /\ replay_buffer = pre_buffer

\* C10: a policy given a non-positive buffer_size or batch_size fails in its
\* construction with a configuration error; no buffer of non-positive
\* capacity or batch size exists, and no add, sample or size is ever called
\* under such a configuration.
C10_InvalidConfigRejected ==
    /\ \A k \in DOMAIN replay_buffer :
           replay_buffer[k].maxsize > 0 /\ replay_buffer[k].batch_size > 0
    /\ (pc # "new" /\ (buffer_size <= 0 \/ batch_size <= 0)) =>
           /\ pc = "config_error"
           /\ last.op = "__init__"
           /\ last.err = "ConfigurationError"
           /\ DOMAIN replay_buffer = {}

\* a construction refused for its batch size alone
C10_Witness ==
    /\ pc = "config_error"
    /\ buffer_size > 0
    /\ batch_size <= 0
    /\ last.err = "ConfigurationError"

(***************************************************************************)
(* Properties of the target parameters.                                    *)
(***************************************************************************)

\* the target variables of agent k, and all of them
TargetVarsOf(k) ==
    {v \in Range(trainable) : IsPrefix(KeyScope(k) \o <<"target">>, v)}
TargetVars == {v \in Range(trainable) : "target" \in Range(v)}

\* the online variable a target variable tracks: the same network under
\* "model" (the TD3 target critics qf_i track centralized_qf_i)
OnlineName(c) ==
    CASE c = "target" -> "model"
      [] c = "qf_0"   -> "centralized_qf_0"
      [] c = "qf_1"   -> "centralized_qf_1"
      [] OTHER        -> c
OnlineCounterpart(v) == [i \in 1..Len(v) |-> OnlineName(v[i])]

\* C6: after initialize() every target parameter equals its online
\* parameter exactly, for the shared policy and for every agent key.
C6_InitializeCopiesOnline ==
    last.op = "initialize" =>
        \A g \in TargetVars : value[g] = value[OnlineCounterpart(g)]

\* initialize() on a TD3 or a non-shared SAC policy leaves every target
\* parameter equal to its online parameter
InitializeCopiesWhereSetUp ==
    (last.op = "initialize" /\ ~(algo = "sac" /\ shared)) =>
        /\ last.err = None
        /\ \A g \in TargetVars : value[g] = value[OnlineCounterpart(g)]

\* C7: a soft update replaces every target parameter of the agent by
\* (1 - tau) * old target + tau * online, with the online value current at the
\* call (stated on numerators and denominators).
C7_SoftUpdateIsConvexCombination ==
    last.op = "soft_update" =>
        \A g \in TargetVarsOf(last.key) :
            LET o == pre_value[OnlineCounterpart(g)]
                t == pre_value[g]
                n == value[g]
            IN  n.n * (tau.d * t.d * o.d) =
                    n.d * ((tau.d - tau.n) * t.n * o.d + tau.n * o.n * t.d)

\* tau = 1/2, target 0, online 2: the soft update left target = 1
C7_Witness ==
    /\ last.op = "soft_update"
    /\ tau = Rat(1, 2)
    /\ \E g \in TargetVarsOf(last.key) :
           /\ pre_value[g] = Rat(0, 1)
           /\ pre_value[OnlineCounterpart(g)] = Rat(2, 1)
           /\ value[g] = Rat(1, 1)

\* C8: with tau = 1 a soft update leaves every target parameter of the agent
\* equal to the current online value, whatever it was before.
C8_TauOneCopiesOnline ==
    (last.op = "soft_update" /\ tau = Rat(1, 1)) =>
        \A g \in TargetVarsOf(last.key) :
            value[g] = value[OnlineCounterpart(g)]

\* a soft update with tau = 1 on a target that differed from online
C8_Witness ==
    /\ last.op = "soft_update"
    /\ tau = Rat(1, 1)
    /\ \E g \in TargetVarsOf(last.key) :
           /\ pre_value[g] # pre_value[OnlineCounterpart(g)]
           /\ value[g] = value[OnlineCounterpart(g)]

\* C9: with tau = 0 a soft update leaves every target parameter unchanged,
\* whatever the online values are.
C9_TauZeroKeepsTarget ==
    (last.op = "soft_update" /\ tau = Rat(0, 1)) =>
        \A g \in TargetVarsOf(last.key) : value[g] = pre_value[g]

\* a soft update with tau = 0 on a target that differs from online
C9_Witness ==
    /\ last.op = "soft_update"
    /\ tau = Rat(0, 1)
    /\ \E g \in TargetVarsOf(last.key) :
           /\ pre_value[g] # pre_value[OnlineCounterpart(g)]
           /\ value[g] = pre_value[g]

Fields == <<"observation", "context", "action", "reward",
            "next_observation", "next_context", "done">>

\* a slot never written: no transition (number 0) in any field
EmptySlot == [f \in Range(Fields) |-> 0]

can_acquire_unlocked(l) == TRUE

\* the lock is free
can_acquire(l) == l = None

InitLocked ==
    /\ NoMaddpg /\ NoFn /\ NoVec /\ NoHiro
    /\ lock = None
    /\ \E capacity \in 1..MaxLockCapacity :
          slots = [i \in 0..(capacity - 1) |-> EmptySlot]
    /\ cursor = 0
    /\ nvalid = 0
    /\ producer = [pc |-> "idle", field |-> 0]
    /\ consumer = [pc |-> "idle", field |-> 0, idx |-> 0, batch |-> EmptySlot,
                   returned |-> <<>>, err |-> None]
    /\ nProduced = 0
    /\ nConsumed = 0

\* add(transition) begins: the producer takes the lock
ProducerAcquire ==
    /\ producer.pc = "idle"
    /\ nProduced < MaxProduced
    /\ can_acquire(lock)
    /\ lock' = "producer"
    /\ producer' = [pc |-> "add", field |-> 1]
    /\ UNCHANGED <<slots, cursor, nvalid, consumer, nProduced, nConsumed>>
    /\ UNCHANGED not_lock_vars

\* add writes the next field of the slot at the write cursor
ProducerWrite ==
    /\ producer.pc = "add"
    /\ producer.field <= Len(Fields)
    /\ slots' = [slots EXCEPT ![cursor][Fields[producer.field]] =
                                  nProduced + 1]
    /\ producer' = [producer EXCEPT !.field = @ + 1]
    /\ UNCHANGED <<lock, cursor, nvalid, consumer, nProduced, nConsumed>>
    /\ UNCHANGED not_lock_vars

\* add ends: the cursor advances modulo the capacity, the count grows up to
\* the capacity, the lock is released
ProducerRelease ==
    /\ producer.pc = "add"
    /\ producer.field > Len(Fields)
    /\ cursor' = (cursor + 1) % Cardinality(DOMAIN slots)
    /\ nvalid' = IF nvalid < Cardinality(DOMAIN slots)
                 THEN nvalid + 1 ELSE nvalid
    /\ lock' = None
    /\ producer' = [pc |-> "idle", field |-> 0]
    /\ nProduced' = nProduced + 1
    /\ UNCHANGED <<slots, consumer, nConsumed>>
    /\ UNCHANGED not_lock_vars

\* sample() begins: the consumer takes the lock; on an empty buffer it
\* releases it and raises, else it draws an index below the count
ConsumerAcquire ==
    /\ consumer.pc = "idle"
    /\ nConsumed < MaxConsumed
    /\ can_acquire(lock)
    /\ IF nvalid = 0
       THEN /\ consumer' = [consumer EXCEPT !.returned = <<>>,
                                            !.err = "InsufficientDataError"]
            /\ nConsumed' = nConsumed + 1
            /\ UNCHANGED lock
       ELSE /\ \E i \in 0..(nvalid - 1) :
                  consumer' = [pc |-> "sample", field |-> 1, idx |-> i,
                               batch |-> EmptySlot, returned |-> <<>>,
                               err |-> None]
            /\ lock' = "consumer"
            /\ UNCHANGED nConsumed
    /\ UNCHANGED <<slots, cursor, nvalid, producer, nProduced>>
    /\ UNCHANGED not_lock_vars

\* sample reads the next field of the slot drawn
ConsumerRead ==
    /\ consumer.pc = "sample"
    /\ consumer.field <= Len(Fields)
    /\ consumer' = [consumer EXCEPT
                       !.batch[Fields[consumer.field]] =
                           slots[consumer.idx][Fields[consumer.field]],
                       !.field = @ + 1]
    /\ UNCHANGED <<lock, slots, cursor, nvalid, producer, nProduced,
                   nConsumed>>
    /\ UNCHANGED not_lock_vars

\* sample ends: the fields read are returned, the lock is released
ConsumerRelease ==
    /\ consumer.pc = "sample"
    /\ consumer.field > Len(Fields)
    /\ consumer' = [consumer EXCEPT !.pc = "idle", !.field = 0,
                                    !.returned = <<consumer.batch>>]
    /\ lock' = None
    /\ nConsumed' = nConsumed + 1
    /\ UNCHANGED <<slots, cursor, nvalid, producer, nProduced>>
    /\ UNCHANGED not_lock_vars

NextLocked ==
    \/ ProducerAcquire
    \/ ProducerWrite
    \/ ProducerRelease
    \/ ConsumerAcquire
    \/ ConsumerRead
    \/ ConsumerRelease

SpecLocked == InitLocked /\ [][NextLocked]_vars

\* C11: with a producer and a consumer running concurrently on one buffer,
\* add and sample are mutually exclusive under the one lock, and no sample
\* returns a slot whose fields come partly from the transition written
\* before and partly from the one written after.
C11_NoTornSample ==
    /\ ~(producer.pc = "add" /\ consumer.pc = "sample")
    /\ \A i \in 1..Len(consumer.returned) :
          \A f, g \in Range(Fields) :
              /\ consumer.returned[i][f] # 0
              /\ consumer.returned[i][f] = consumer.returned[i][g]

\* a sample returned a transition that had overwritten an older one, and
\* the producer is again in the middle of an add
C11_Witness ==
    /\ consumer.returned # <<>>
    /\ consumer.returned[1]["done"] > Cardinality(DOMAIN slots)
    /\ producer.pc = "add"
    /\ producer.field > 1

(***************************************************************************)
(* Vectorised environments (hbaselines/ppo/cmd_util.py) and the rollout    *)
(* buffers of their workers (section 5 of the specification).              *)
(***************************************************************************)

\* the seeds and initializers a caller may pass
Seeds == {0, 7}
Initializers == {None, "initializer"}

\* make_env: the initializer, when there is one, is called with the ranks;
\* the environment is seeded with seed + subrank and wrapped in a Monitor
make_env(subrank, seed, initializer) ==
    [subrank           |-> subrank,
     seed              |-> seed + subrank,
     monitor           |-> TRUE,
     initializer_calls |-> IF initializer # None
                           THEN <<[mpi_rank |-> 0, subrank |-> subrank]>>
                           ELSE <<>>]

\* make_thunk: the call of make_env the vectorised environment makes
make_thunk(rank, seed, initializer) == make_env(rank, seed, initializer)

make_vec_env_one_rank(num_env, seed, start_index, initializer, force_dummy) ==
    [kind |-> IF ~force_dummy /\ num_env > 1
              THEN "SubprocVecEnv" ELSE "DummyVecEnv",
     envs |-> [i \in 1..num_env |-> make_thunk(start_index, seed, initializer)]]

\* make_vec_env: one thunk for every i in range(num_env), of rank
\* i + start_index; sub-processes get the initializer, a dummy vectorised
\* environment gets none
make_vec_env(num_env, seed, start_index, initializer, force_dummy) ==
    IF ~force_dummy /\ num_env > 1
    THEN [kind |-> "SubprocVecEnv",
          envs |-> [i \in 1..num_env |->
                       make_thunk((i - 1) + start_index, seed, initializer)]]
    ELSE [kind |-> "DummyVecEnv",
          envs |-> [i \in 1..num_env |->
                       make_thunk((i - 1) + start_index, seed, None)]]

RECURSIVE concat(_, _)
\* the rollout buffers of the workers 1..n, one after the other
concat(ro, n) == IF n = 0 THEN <<>> ELSE concat(ro, n - 1) \o ro[n]

RECURSIVE add_all(_, _, _)
add_all(buf, h, i) ==
    IF i > Len(h) THEN buf ELSE add_all(add(buf, h[i]), h, i + 1)

\* the synchronization point: one process adds every worker's transitions
\* to the shared buffer, one after the other
merge(buf, ro) == add_all(buf, concat(ro, Len(ro)), 1)

InitVecEnv ==
    /\ NoMaddpg /\ NoFn /\ NoLock /\ NoHiro
    /\ vec_args \in [num_env     : 1..MaxNumEnv,
                     seed        : Seeds,
                     start_index : 0..MaxStartIndex,
                     initializer : Initializers,
                     force_dummy : BOOLEAN]
    /\ vec_env = [kind |-> None, envs |-> <<>>]
    /\ phase = "new"
    /\ rollout = <<>>
    /\ shared_buffer = ReplayBuffer(MaxSharedCapacity, 1)
    /\ pre_shared = ReplayBuffer(MaxSharedCapacity, 1)
    /\ merged = <<>>
    /\ nRollouts = 0

\* the vectorised environment is built; the first rollout phase begins
MakeVecEnv ==
    /\ phase = "new"
    /\ vec_env' = make_vec_env(vec_args.num_env, vec_args.seed,
                               vec_args.start_index, vec_args.initializer,
                               vec_args.force_dummy)
    /\ rollout' = [w \in 1..vec_args.num_env |-> <<>>]
    /\ phase' = "rollout"
    /\ UNCHANGED <<vec_args, shared_buffer, pre_shared, merged, nRollouts>>
    /\ UNCHANGED not_vec_vars

\* the workers that have finished the step the vectorised environment is in
StepsDone == IF \A w \in DOMAIN rollout : \A v \in DOMAIN rollout :
                    Len(rollout[w]) = Len(rollout[v])
             THEN {} ELSE {w \in DOMAIN rollout :
                              \A v \in DOMAIN rollout :
                                  Len(rollout[w]) >= Len(rollout[v])}

\* worker w finishes its environment step and appends the transition, named
\* by the worker's subrank, to its own rollout buffer
WorkerStep(w) ==
    /\ phase = "rollout"
    /\ w \in DOMAIN rollout
    /\ w \notin StepsDone
    /\ Len(rollout[w]) < MaxRolloutLen
    /\ rollout' = [rollout EXCEPT ![w] =
                      Append(@, [worker |-> vec_env.envs[w].subrank,
                                 phase  |-> nRollouts,
                                 step   |-> Len(rollout[w]) + 1])]
    /\ UNCHANGED <<vec_args, vec_env, phase, shared_buffer, pre_shared,
                   merged, nRollouts>>
    /\ UNCHANGED not_vec_vars

\* the synchronization point between a rollout phase and an update phase
Synchronize ==
    /\ phase = "rollout"
    /\ StepsDone = {}
    /\ \E w \in DOMAIN rollout : Len(rollout[w]) > 0
    /\ shared_buffer' = merge(shared_buffer, rollout)
    /\ pre_shared' = shared_buffer
    /\ merged' = concat(rollout, Len(rollout))
    /\ rollout' = [w \in DOMAIN rollout |-> <<>>]
    /\ phase' = "update"
    /\ nRollouts' = nRollouts + 1
    /\ UNCHANGED <<vec_args, vec_env>>
    /\ UNCHANGED not_vec_vars

\* the update phase ends, the next rollout phase begins
BeginRollout ==
    /\ phase = "update"
    /\ nRollouts < MaxRollouts
    /\ phase' = "rollout"
    /\ pre_shared' = shared_buffer
    /\ UNCHANGED <<vec_args, vec_env, rollout, shared_buffer, merged,
                   nRollouts>>
    /\ UNCHANGED not_vec_vars

NextVecEnv ==
    \/ MakeVecEnv
    \/ \E w \in 1..MaxNumEnv : WorkerStep(w)
    \/ Synchronize
    \/ BeginRollout

SpecVecEnv == InitVecEnv /\ [][NextVecEnv]_vars

\* the valid part of two buffers is the same
SameContent(a, b) ==
    /\ a.count = b.count
    /\ a.next_idx = b.next_idx
    /\ \A i \in 0..(a.count - 1) : a.storage[i] = b.storage[i]

C18_VecEnvAsRequested ==
    phase # "new" =>
        /\ Len(vec_env.envs) = vec_args.num_env
        /\ \A i \in 1..Len(vec_env.envs) : vec_env.envs[i].monitor
        /\ \A r \in vec_args.start_index ..
                    (vec_args.start_index + vec_args.num_env - 1) :
              Cardinality({i \in 1..Len(vec_env.envs) :
                              vec_env.envs[i].subrank = r}) = 1
        /\ vec_env.kind = IF vec_args.num_env > 1 /\ ~vec_args.force_dummy
                          THEN "SubprocVecEnv" ELSE "DummyVecEnv"
        /\ vec_args.initializer # None =>
              \A i \in 1..Len(vec_env.envs) :
                  vec_env.envs[i].initializer_calls =
                      <<[mpi_rank |-> 0, subrank |-> vec_env.envs[i].subrank]>>

\* what does hold: the number, the monitors, the subranks and the kind of
\* the sub-environments, and the initializer in the sub-process case
VecEnvShapeAsRequested ==
    phase # "new" =>
        /\ Len(vec_env.envs) = vec_args.num_env
        /\ \A i \in 1..Len(vec_env.envs) : vec_env.envs[i].monitor
        /\ \A r \in vec_args.start_index ..
                    (vec_args.start_index + vec_args.num_env - 1) :
              Cardinality({i \in 1..Len(vec_env.envs) :
                              vec_env.envs[i].subrank = r}) = 1
        /\ vec_env.kind = IF vec_args.num_env > 1 /\ ~vec_args.force_dummy
                          THEN "SubprocVecEnv" ELSE "DummyVecEnv"
        /\ (vec_args.initializer # None /\ vec_env.kind = "SubprocVecEnv") =>
              \A i \in 1..Len(vec_env.envs) :
                  vec_env.envs[i].initializer_calls =
                      <<[mpi_rank |-> 0, subrank |-> vec_env.envs[i].subrank]>>

(***************************************************************************)
(* The flow parameters of the ring and of the single-lane highway          *)
(* (hbaselines/envs/mixed_autonomy/params/ring_small.py and                *)
(* highway_single.py).                                                     *)
(***************************************************************************)

\* the number of vehicles on the ring
TotalVehicles == 22

\* a call that has not returned yet
NotReturned == [returned |-> FALSE, raised |-> None, value |-> None]

\* round(h / k) of Python 3 for h >= 0, k > 0: to the nearest integer, a
\* tie to the even one
round(h, k) ==
    LET q == h \div k
        r == h % k
    IN  IF 2 * r < k THEN q
        ELSE IF 2 * r > k THEN q + 1
        ELSE IF q % 2 = 0 THEN q ELSE q + 1

vehicles_to_add_equal_share(humans_remaining, num_automated, i) ==
    round(humans_remaining, num_automated)

\* the fraction of the remaining human vehicles added after automated
\* vehicle i
vehicles_to_add(humans_remaining, num_automated, i) ==
    round(humans_remaining, num_automated - i)

RECURSIVE SumVehicles(_, _)
SumVehicles(vehicles, n) ==
    IF n = 0 THEN 0
    ELSE SumVehicles(vehicles, n - 1) + vehicles[n].num_vehicles

\* VehicleParams.num_vehicles: the vehicles of all the types added
num_vehicles(vehicles) == SumVehicles(vehicles, Len(vehicles))

\* ring_small.get_flow_params, the dictionary returned
ring_small_flow_params(a, vehicles) ==
    [exp_tag  |-> "stabilizing_the_ring",
     env_name |-> IF a.multiagent THEN "MultiAgentWaveAttenuationPOEnv"
                  ELSE "WaveAttenuationPOEnv",
     evaluate |-> a.evaluate,
     veh      |-> vehicles]

\* highway_single.get_flow_params, the environment class chosen
highway_single_env_name(multiagent, imitation) ==
    IF multiagent
    THEN IF imitation THEN None ELSE "AVOpenMultiAgentEnv"
    ELSE IF imitation THEN "AVOpenEnv" ELSE "AVOpenImitationEnv"

\* highway_single.get_flow_params, the dictionary returned
highway_single_flow_params(a) ==
    [exp_tag  |-> "highway-single",
     env_name |-> highway_single_env_name(a.multiagent, a.imitation),
     evaluate |-> a.evaluate]

InitFlowParams ==
    /\ NoMaddpg /\ NoLock /\ NoVec /\ NoHiro
    /\ \/ /\ fn = "ring_small.get_flow_params"
          /\ args \in [num_automated : 0..TotalVehicles,
                       evaluate      : BOOLEAN,
                       multiagent    : BOOLEAN]
          /\ locals = [i |-> 0,
                       humans_remaining |-> TotalVehicles - args.num_automated,
                       vehicles |-> <<>>]
       \/ /\ fn = "highway_single.get_flow_params"
          /\ args \in [evaluate   : BOOLEAN,
                       multiagent : BOOLEAN,
                       imitation  : BOOLEAN]
          /\ locals = <<>>
    /\ retval = NotReturned

\* one iteration of the loop over range(num_automated): an automated
\* vehicle is added, then a fraction of the remaining human vehicles
RingSmall_loop ==
    /\ fn = "ring_small.get_flow_params"
    /\ ~retval.returned
    /\ locals.i < args.num_automated
    /\ LET n == vehicles_to_add(locals.humans_remaining, args.num_automated,
                                locals.i)
       IN  locals' =
             [i |-> locals.i + 1,
              humans_remaining |-> locals.humans_remaining - n,
              vehicles |-> locals.vehicles \o
                  <<[veh_id |-> <<"rl", locals.i>>, num_vehicles |-> 1],
                    [veh_id |-> <<"human", locals.i>>, num_vehicles |-> n]>>]
    /\ UNCHANGED <<fn, args, retval>>
    /\ UNCHANGED not_fn_vars

\* after the loop: the assertion on the number of vehicles, then the return
RingSmall_return ==
    /\ fn = "ring_small.get_flow_params"
    /\ ~retval.returned
    /\ locals.i >= args.num_automated
    /\ retval' = IF num_vehicles(locals.vehicles) = TotalVehicles
                 THEN [returned |-> TRUE, raised |-> None,
                       value |-> ring_small_flow_params(args, locals.vehicles)]
                 ELSE [returned |-> TRUE, raised |-> "AssertionError",
                       value |-> None]
    /\ UNCHANGED <<fn, args, locals>>
    /\ UNCHANGED not_fn_vars

HighwaySingle_return ==
    /\ fn = "highway_single.get_flow_params"
    /\ ~retval.returned
    /\ retval' = [returned |-> TRUE, raised |-> None,
                  value |-> highway_single_flow_params(args)]
    /\ UNCHANGED <<fn, args, locals>>
    /\ UNCHANGED not_fn_vars

NextFlowParams ==
    \/ RingSmall_loop
    \/ RingSmall_return
    \/ HighwaySingle_return

SpecFlowParams == InitFlowParams /\ [][NextFlowParams]_vars

\* the vehicles of the types whose veh_id begins with kind
CountOf(vehicles, kind) ==
    LET ofKind == {j \in 1..Len(vehicles) : vehicles[j].veh_id[1] = kind}
        RECURSIVE Sum(_)
        Sum(S) == IF S = {} THEN 0
                  ELSE LET j == CHOOSE x \in S : TRUE
                       IN  vehicles[j].num_vehicles + Sum(S \ {j})
    IN  Sum(ofKind)

\* C14: for every num_automated in 1..22 the ring parameters place exactly
\* 22 vehicles, num_automated automated ones and 22 - num_automated human
\* ones (21 and 1 by default), so the assertion on the number of vehicles
\* does not fail.
C14_RingPlaces22Vehicles ==
    (/\ fn = "ring_small.get_flow_params"
     /\ retval.returned
     /\ args.num_automated \in 1..TotalVehicles) =>
        /\ retval.raised = None
        /\ num_vehicles(retval.value.veh) = 22
        /\ CountOf(retval.value.veh, "rl") = args.num_automated
        /\ CountOf(retval.value.veh, "human") = 22 - args.num_automated
        /\ \A j \in 1..Len(retval.value.veh) :
              retval.value.veh[j].num_vehicles >= 0

\* four automated vehicles: the 18 human ones are split 4, 5, 4, 5 (two
\* ties rounded to the even number)
C14_Witness ==
    /\ fn = "ring_small.get_flow_params"
    /\ retval.returned
    /\ retval.raised = None
    /\ args.num_automated = 4
    /\ retval.value.veh[2].num_vehicles = 4
    /\ retval.value.veh[4].num_vehicles = 5
    /\ retval.value.veh[6].num_vehicles = 4

\* C15: the highway parameters use the imitation environment exactly when
\* imitation is True: with multiagent False, imitation True gives
\* AVOpenImitationEnv and imitation False gives AVOpenEnv.
C15_ImitationEnvWhenImitation ==
    (/\ fn = "highway_single.get_flow_params"
     /\ retval.returned
     /\ ~args.multiagent) =>
        retval.value.env_name = IF args.imitation THEN "AVOpenImitationEnv"
                                ELSE "AVOpenEnv"

\* the environment classes for several agents
MultiAgentEnvs == {"AVOpenMultiAgentEnv", "MultiAgentWaveAttenuationPOEnv"}

\* C16: for every combination of evaluate, multiagent and imitation the
\* highway parameters name an environment class, never None, and a
\* multi-agent one exactly when multiagent is True.
C16_EnvNameIsAClass ==
    (/\ fn = "highway_single.get_flow_params"
     /\ retval.returned) =>
        /\ retval.value.env_name # None
        /\ retval.value.env_name \in MultiAgentEnvs <=> args.multiagent

(***************************************************************************)
(* parse_unknown_args (hbaselines/ppo/cmd_util.py).  A command-line token  *)
(* is the sequence of its characters.                                      *)
(***************************************************************************)

\* the tokens tried: --a  --b  --a=x  --b=y  x  y
Tokens == {<<"-", "-", "a">>, <<"-", "-", "b">>,
           <<"-", "-", "a", "=", "x">>, <<"-", "-", "b", "=", "y">>,
           <<"x">>, <<"y">>}

\* arg.startswith('--')
startswith_dashes(arg) == Len(arg) >= 2 /\ arg[1] = "-" /\ arg[2] = "-"

\* '=' in arg
has_equals(arg) == \E i \in 1..Len(arg) : arg[i] = "="

\* the positions of '=' in arg, and the end of arg
Separators(arg) == {i \in 1..Len(arg) : arg[i] = "="} \cup {Len(arg) + 1}

\* the least separator after position p
NextSeparator(arg, p) ==
    CHOOSE i \in Separators(arg) :
        i > p /\ \A j \in Separators(arg) : j > p => i <= j

\* arg.split('=')[0] and arg.split('=')[1], for an arg with an '='
split_0(arg) == SubSeq(arg, 1, NextSeparator(arg, 0) - 1)
split_1(arg) == SubSeq(arg, NextSeparator(arg, 0) + 1,
                       NextSeparator(arg, NextSeparator(arg, 0)) - 1)

\* s[2:]
from_2(s) == SubSeq(s, 3, Len(s))

\* retval[key] = value
setitem(d, key, val) ==
    [k \in DOMAIN d \cup {key} |-> IF k = key THEN val ELSE d[k]]

InitArgs ==
    /\ NoMaddpg /\ NoLock /\ NoVec /\ NoHiro
    /\ fn = "parse_unknown_args"
    /\ \E n \in 0..MaxArgs : args \in [1..n -> Tokens]
    /\ locals = [pos |-> 1, retval |-> EmptyDict, preceded_by_key |-> FALSE,
                 key |-> <<>>]
    /\ retval = NotReturned

\* one iteration of the loop over args
ParseArg ==
    /\ fn = "parse_unknown_args"
    /\ ~retval.returned
    /\ locals.pos <= Len(args)
    /\ LET arg == args[locals.pos]
       IN  locals' =
             IF startswith_dashes(arg)
             THEN IF has_equals(arg)
                  THEN [locals EXCEPT
                           !.pos = @ + 1,
                           !.key = from_2(split_0(arg)),
                           !.retval = setitem(@, from_2(split_0(arg)),
                                              split_1(arg))]
                  ELSE [locals EXCEPT
                           !.pos = @ + 1,
                           !.key = from_2(arg),
                           !.preceded_by_key = TRUE]
             ELSE IF locals.preceded_by_key
                  THEN [locals EXCEPT
                           !.pos = @ + 1,
                           !.retval = setitem(@, locals.key, arg),
                           !.preceded_by_key = FALSE]
                  ELSE [locals EXCEPT !.pos = @ + 1]
    /\ UNCHANGED <<fn, args, retval>>
    /\ UNCHANGED not_fn_vars

\* after the loop: return retval
ParseReturn ==
    /\ fn = "parse_unknown_args"
    /\ ~retval.returned
    /\ locals.pos > Len(args)
    /\ retval' = [returned |-> TRUE, raised |-> None,
                  value |-> locals.retval]
    /\ UNCHANGED <<fn, args, locals>>
    /\ UNCHANGED not_fn_vars

NextArgs ==
    \/ ParseArg
    \/ ParseReturn

SpecArgs == InitArgs /\ [][NextArgs]_vars

\* the dictionary the first n tokens of a describe: a token --key=value
\* gives key -> value; a token --key directly followed by a token that does
\* not begin with -- gives key -> that token; a later one overrides an
\* earlier one; every other token gives nothing
RECURSIVE Described(_, _)
Described(a, n) ==
    IF n = 0 THEN EmptyDict
    ELSE LET d == Described(a, n - 1)
             arg == a[n]
         IN  IF startswith_dashes(arg) /\ has_equals(arg)
             THEN setitem(d, from_2(split_0(arg)), split_1(arg))
             ELSE IF /\ ~startswith_dashes(arg)
                     /\ n > 1
                     /\ startswith_dashes(a[n - 1])
                     /\ ~has_equals(a[n - 1])
                  THEN setitem(d, from_2(a[n - 1]), arg)
                  ELSE d

\* C17: parse_unknown_args maps every argument list to the dictionary in
\* which each token --key=value contributes key -> value and each --key
\* directly followed by a token not beginning with -- contributes
\* key -> that token; keys come from -- tokens only, a later occurrence
\* overrides an earlier one, and a token that is neither a -- token nor the
\* value of the directly preceding --key is ignored.
C17_ParsesAsDescribed ==
    (fn = "parse_unknown_args" /\ retval.returned) =>
        retval.value = Described(args, Len(args))

\* what does hold: the keys come from -- tokens only, the values from the
\* tokens given, and an argument list in which no --key=value token stands
\* between a --key and the next plain token is parsed as described
NoStaleKey(a) ==
    \A i, j \in 1..Len(a) :
        (/\ i < j
         /\ startswith_dashes(a[i]) /\ ~has_equals(a[i])
         /\ ~startswith_dashes(a[j])
         /\ \A h \in (i + 1)..(j - 1) : startswith_dashes(a[h]))
        => \A h \in (i + 1)..(j - 1) : ~has_equals(a[h])

ParsesWithoutStaleKey ==
    (fn = "parse_unknown_args" /\ retval.returned) =>
        /\ \A k \in DOMAIN retval.value :
              \E i \in 1..Len(args) :
                  /\ startswith_dashes(args[i])
                  /\ k = from_2(IF has_equals(args[i]) THEN split_0(args[i])
                                ELSE args[i])
        /\ NoStaleKey(args) => retval.value = Described(args, Len(args))

(***************************************************************************)
(* The placeholders of the full observations and actions a shared MADDPG   *)
(* policy creates, and the dimensions it gives its replay buffer           *)
(* (multi_fcnet/td3.py and multi_fcnet/sac.py).  A shape is the sequence   *)
(* of its dimensions, "?" being the batch dimension None.                  *)
(***************************************************************************)

\* TD3 _setup_maddpg, shared: the two placeholders, then the keyword
\* arguments _setup_agent gives MultiReplayBuffer
TD3_shared_shapes(a) ==
    LET all_obs_ph == <<"?">> \o <<a.all_ob_dim>>
        all_action_ph == <<"?">> \o <<a.all_ob_dim * a.n_agents>>
    IN  [all_obs_ph    |-> all_obs_ph,
         all_action_ph |-> all_action_ph,
         replay_buffer |-> [obs_dim     |-> a.ob_dim,
                            ac_dim      |-> a.ac_dim,
                            all_obs_dim |-> all_obs_ph[Len(all_obs_ph)],
                            all_ac_dim  |-> all_action_ph[Len(all_action_ph)],
                            shared      |-> TRUE,
                            n_agents    |-> a.n_agents]]

\* SAC _setup_maddpg and _setup_maddpg_shared: the two placeholders, then
\* the keyword arguments given to SharedReplayBuffer
SAC_shared_shapes(a) ==
    LET all_obs_ph == <<"?">> \o <<a.all_ob_dim>>
        all_action_ph == <<"?">> \o <<a.all_ob_dim * a.n_agents>>
    IN  [all_obs_ph    |-> all_obs_ph,
         all_action_ph |-> all_action_ph,
         replay_buffer |-> [obs_dim     |-> a.ob_dim,
                            ac_dim      |-> a.ac_dim,
                            n_agents    |-> a.n_agents,
                            all_obs_dim |-> all_obs_ph[1]]]

InitShapes ==
    /\ NoMaddpg /\ NoLock /\ NoVec /\ NoHiro
    /\ fn \in {"td3._setup_maddpg", "sac._setup_maddpg"}
    /\ args \in [ob_dim     : 1..MaxDim,
                 ac_dim     : 1..MaxDim,
                 all_ob_dim : 1..MaxDim,
                 n_agents   : 1..MaxAgents]
    /\ locals = <<>>
    /\ retval = NotReturned

\* _setup_maddpg of a TD3 policy with shared = True
TD3_SetupShared ==
    /\ fn = "td3._setup_maddpg"
    /\ ~retval.returned
    /\ retval' = [returned |-> TRUE, raised |-> None,
                  value |-> TD3_shared_shapes(args)]
    /\ UNCHANGED <<fn, args, locals>>
    /\ UNCHANGED not_fn_vars

\* _setup_maddpg of a SAC policy with shared = True
SAC_SetupShared ==
    /\ fn = "sac._setup_maddpg"
    /\ ~retval.returned
    /\ retval' = [returned |-> TRUE, raised |-> None,
                  value |-> SAC_shared_shapes(args)]
    /\ UNCHANGED <<fn, args, locals>>
    /\ UNCHANGED not_fn_vars

NextShapes ==
    \/ TD3_SetupShared
    \/ SAC_SetupShared

SpecShapes == InitShapes /\ [][NextShapes]_vars

\* C19: in shared MADDPG mode the width of all_action_ph, and the
\* all_ac_dim given to the replay buffer, is n_agents times the action
\* dimension ac_space.shape[0] of one agent, for TD3 and for SAC.
C19_FullActionWidth ==
    (fn \in {"td3._setup_maddpg", "sac._setup_maddpg"} /\ retval.returned) =>
        /\ retval.value.all_action_ph = <<"?", args.n_agents * args.ac_dim>>
        /\ "all_ac_dim" \in DOMAIN retval.value.replay_buffer =>
              retval.value.replay_buffer.all_ac_dim =
                  args.n_agents * args.ac_dim

\* what does hold: the width is n_agents times the dimension of the full
\* observation space
FullActionWidthAsBuilt ==
    (fn \in {"td3._setup_maddpg", "sac._setup_maddpg"} /\ retval.returned) =>
        retval.value.all_action_ph = <<"?", args.n_agents * args.all_ob_dim>>

(***************************************************************************)
(* HIROPolicy (hbaselines/policies/ddpg.py): a manager that issues goals   *)
(* and a worker that acts on them.  Observations and goals are integers; a *)
(* field that holds None is the empty sequence, one that holds x is <<x>>. *)
(***************************************************************************)

\* what the manager and the worker networks may output
Goals == {0, 2}
WorkerActions == {"a0", "a1"}

\* update_goal(goal, obs, prev_obs)
update_goal(goal, obs, obs_before) == obs_before + goal - obs

\* a call self.update_goal(*argv): the method takes three arguments, each
\* an array (here <<x>>)
call_update_goal(argv) ==
    IF Len(argv) = 3
    THEN [err |-> None,
          ret |-> <<update_goal(argv[1][1], argv[2][1], argv[3][1])>>]
    ELSE [err |-> "TypeError", ret |-> <<>>]

\* sess.run(fetch, ...): None is no fetch
sess_run(fetch, out) ==
    IF fetch = None THEN [err |-> "TypeError", ret |-> <<>>]
    ELSE [err |-> None, ret |-> <<out>>]

\* step(obs, state, apply_manager=...): the goal from the manager or from
\* update_goal, then the action of the worker; g and a are what the two
\* networks would output
step(self, obs, apply_manager, g, a) ==
    LET goal == IF apply_manager THEN sess_run(self.manager, g)
                ELSE call_update_goal(<<self.cur_goal>>)
        action == sess_run(self.worker, a)
    IN  IF goal.err # None
        THEN [self |-> self, err |-> goal.err, ret |-> <<>>]
        ELSE IF action.err # None
        THEN [self |-> [self EXCEPT !.cur_goal = goal.ret],
              err |-> action.err, ret |-> <<>>]
        ELSE [self |-> [self EXCEPT !.cur_goal = goal.ret],
              err |-> None, ret |-> <<goal.ret[1], action.ret[1]>>]

\* __init__: no manager, no worker and no goal yet
InitHiro ==
    /\ NoMaddpg /\ NoFn /\ NoLock /\ NoVec
    /\ hiro = [manager |-> None, worker |-> None, cur_goal |-> <<>>]
    /\ prev_obs \in 0..MaxObs
    /\ hiro_last = [op |-> "__init__", apply_manager |-> FALSE, obs |-> 0,
                    manager_out |-> 0, pre_goal |-> <<>>, pre_obs |-> 0,
                    actors |-> FALSE, err |-> None, ret |-> <<>>]
    /\ nSteps = 0

\* the caller stores the two actors make_actor returns in the fields
\* manager and worker (the class itself leaves them None)
AssignActors ==
    /\ hiro.manager = None
    /\ hiro' = [hiro EXCEPT !.manager = "manager_pi", !.worker = "worker_pi"]
    /\ UNCHANGED <<prev_obs, hiro_last, nSteps>>
    /\ UNCHANGED not_hiro_vars

\* one call of step on the observation obs
Step(obs, apply_manager, g, a) ==
    /\ nSteps < MaxSteps
    /\ LET r == step(hiro, obs, apply_manager, g, a)
       IN  /\ hiro' = r.self
           /\ hiro_last' = [op |-> "step", apply_manager |-> apply_manager,
                            obs |-> obs, manager_out |-> g,
                            pre_goal |-> hiro.cur_goal, pre_obs |-> prev_obs,
                            actors |-> /\ hiro.manager # None
                                       /\ hiro.worker # None,
                            err |-> r.err, ret |-> r.ret]
    /\ prev_obs' = obs
    /\ nSteps' = nSteps + 1
    /\ UNCHANGED not_hiro_vars

NextHiro ==
    \/ AssignActors
    \/ \E obs \in 0..MaxObs, apply_manager \in BOOLEAN, g \in Goals,
          a \in WorkerActions : Step(obs, apply_manager, g, a)

SpecHiro == InitHiro /\ [][NextHiro]_vars

\* C20: every call of step returns (goal, action): with apply_manager True
\* the goal is freshly produced by the manager, with apply_manager False
\* the previous goal is carried forward through update_goal; the worker
\* acts at every step, the manager issues a goal only when told to.
\* (Calls made with the two actors in place and, when the manager is not
\* applied, with a previous goal to carry forward.)
C20_StepReturnsGoalAndAction ==
    (/\ hiro_last.op = "step"
     /\ hiro_last.actors
     /\ hiro_last.apply_manager \/ hiro_last.pre_goal # <<>>) =>
        /\ hiro_last.err = None
        /\ Len(hiro_last.ret) = 2
        /\ hiro_last.ret[2] \in WorkerActions
        /\ hiro_last.apply_manager => hiro_last.ret[1] = hiro_last.manager_out
        /\ ~hiro_last.apply_manager =>
              hiro_last.ret[1] = update_goal(hiro_last.pre_goal[1],
                                             hiro_last.obs, hiro_last.pre_obs)

\* what does hold: with the two actors in place, a step that applies the
\* manager returns the manager's goal and an action of the worker, and a
\* step that does not raises TypeError and leaves the goal as it was
StepAsBuilt ==
    (hiro_last.op = "step" /\ hiro_last.actors) =>
        IF hiro_last.apply_manager
        THEN /\ hiro_last.err = None
             /\ hiro_last.ret[1] = hiro_last.manager_out
             /\ hiro_last.ret[2] \in WorkerActions
             /\ hiro.cur_goal = <<hiro_last.manager_out>>
        ELSE /\ hiro_last.err = "TypeError"
             /\ hiro_last.ret = <<>>
             /\ hiro.cur_goal = hiro_last.pre_goal

(***************************************************************************)
(* The variable lists of the TD3 critic optimizers.                        *)
(***************************************************************************)

\* the variable _setup_agent creates for the i-th centralized critic of
\* agent k
CentralizedCritic(k, i) ==
    KeyScope(k) \o <<"model", IF i = 0 THEN "centralized_qf_0"
                              ELSE "centralized_qf_1">>

\* C24: in the TD3 policy, for each i in {0, 1} the variable list given to
\* the i-th critic optimizer of every agent is non-empty and is exactly the
\* set of variables created for the i-th centralized critic, and these
\* variables are trainable variables of the policy.
C24_CriticOptimizerCoversCritic ==
    algo = "td3" =>
        \A k \in DOMAIN optimizer : \A i \in 0..1 :
            /\ optimizer[k].critic[i] # <<>>
            /\ Range(optimizer[k].critic[i]) = {CentralizedCritic(k, i)}
            /\ CentralizedCritic(k, i) \in Range(trainable)

\* what the TD3 setup builds: the centralized critics exist, the variable
\* lists of their optimizers are empty, and a gradient update leaves the
\* critics as they were
TD3_CriticVarListsAsBuilt ==
    algo = "td3" =>
        \A k \in DOMAIN optimizer : \A i \in 0..1 :
            /\ optimizer[k].critic[i] = <<>>
            /\ CentralizedCritic(k, i) \in Range(trainable)
            /\ last.op = "gradient" =>
                   value[CentralizedCritic(k, i)] =
                       pre_value[CentralizedCritic(k, i)]

(***************************************************************************)
(* The target entropy of the SAC MultiFeedForwardPolicy                    *)
(* (multi_fcnet/sac.py): __init__ stores it, the update setup of the       *)
(* non-shared policy hands every agent's to _setup_actor_update.  An       *)
(* action space is given by its shape; the argument target_entropy is <<>> *)
(* for None and <<x>> for the number x.                                    *)
(***************************************************************************)

\* the shapes an action space may have, and the numbers a target entropy
\* may be given as
RECURSIVE ShapesOfRank(_)
ShapesOfRank(r) ==
    IF r = 0 THEN {<<>>}
    ELSE {Append(sh, d) : sh \in ShapesOfRank(r - 1), d \in 1..MaxDim}
Shapes == UNION {ShapesOfRank(r) : r \in 1..MaxRank}
TargetEntropies == {-x : x \in 1..MaxDim}

\* numpy.prod of a shape
RECURSIVE np_prod(_)
np_prod(shape) == IF shape = <<>> THEN 1 ELSE Head(shape) * np_prod(Tail(shape))

\* self.target_entropy before __init__ has assigned it
NoEntropy == [is_dict |-> FALSE, item |-> EmptyDict]

\* __init__: self.target_entropy is the heuristic, a dict of it per key if
\* ac_space is a dict, when the argument is None, and the argument otherwise
\* (a value that is no dict is held under SharedKey)
SAC_target_entropy(target_entropy, ac_space) ==
    IF target_entropy = <<>>
    THEN IF ac_space.is_dict
         THEN [is_dict |-> TRUE,
               item    |-> [key \in DOMAIN ac_space.shape |->
                               -np_prod(ac_space.shape[key])]]
         ELSE [is_dict |-> FALSE,
               item    |-> SharedKey :> -np_prod(ac_space.shape[SharedKey])]
    ELSE [is_dict |-> FALSE, item |-> SharedKey :> target_entropy[1]]

\* self.target_entropy[key] in _setup_maddpg_independent: the entry of a
\* dict; a number cannot be indexed
SAC_target_entropy_getitem(te, key) ==
    IF te.is_dict
    THEN [raised |-> None, value |-> <<te.item[key]>>]
    ELSE [raised |-> "TypeError", value |-> <<>>]

\* the action space of a policy: a dict of spaces per agent key if the
\* policy is not shared, one space otherwise
ActionSpaces(sh) ==
    IF sh
    THEN {[is_dict |-> FALSE, shape |-> SharedKey :> x] : x \in Shapes}
    ELSE {[is_dict |-> TRUE, shape |-> f] : f \in [Agents -> Shapes]}

InitEntropy ==
    /\ NoMaddpg /\ NoLock /\ NoVec /\ NoHiro
    /\ fn = "sac.__init__"
    /\ \E sh \in BOOLEAN :
          args \in [shared         : {sh},
                    ac_space       : ActionSpaces(sh),
                    target_entropy : {<<>>} \cup
                                     {<<x>> : x \in TargetEntropies}]
    /\ locals = [pc |-> "__init__", target_entropy |-> NoEntropy, i |-> 1,
                 passed |-> EmptyDict]
    /\ retval = NotReturned

\* __init__ up to the call of the base class, which runs the setup
SAC_init ==
    /\ fn = "sac.__init__"
    /\ ~retval.returned
    /\ locals.pc = "__init__"
    /\ locals' = [locals EXCEPT
                     !.pc = "setup",
                     !.target_entropy =
                         SAC_target_entropy(args.target_entropy,
                                            args.ac_space)]
    /\ UNCHANGED <<fn, args, retval>>
    /\ UNCHANGED not_fn_vars

\* one iteration of the update loop of _setup_maddpg_independent: the
\* target entropy of the key is looked up for _setup_actor_update
SAC_SetupIndependent_key ==
    /\ fn = "sac.__init__"
    /\ ~retval.returned
    /\ locals.pc = "setup"
    /\ ~args.shared
    /\ locals.i <= Len(AgentSeq)
    /\ LET key == AgentSeq[locals.i]
           r   == SAC_target_entropy_getitem(locals.target_entropy, key)
       IN  IF r.raised # None
           THEN /\ retval' = [returned |-> TRUE, raised |-> r.raised,
                              value |-> None]
                /\ UNCHANGED locals
           ELSE /\ locals' = [locals EXCEPT
                                 !.i = locals.i + 1,
                                 !.passed = (key :> r.value[1]) @@ @]
                /\ UNCHANGED retval
    /\ UNCHANGED <<fn, args>>
    /\ UNCHANGED not_fn_vars

\* the setup is through (the shared setup looks up no target entropy) and
\* __init__ returns
SAC_init_return ==
    /\ fn = "sac.__init__"
    /\ ~retval.returned
    /\ locals.pc = "setup"
    /\ args.shared \/ locals.i > Len(AgentSeq)
    /\ retval' = [returned |-> TRUE, raised |-> None, value |-> None]
    /\ UNCHANGED <<fn, args, locals>>
    /\ UNCHANGED not_fn_vars

NextEntropy ==
    \/ SAC_init
    \/ SAC_SetupIndependent_key
    \/ SAC_init_return

SpecEntropy == InitEntropy /\ [][NextEntropy]_vars

\* the target entropy the claim names for agent key: the heuristic
\* -prod(action shape of the agent) for None, the number given otherwise
ExpectedEntropy(key) ==
    IF args.target_entropy = <<>> THEN -np_prod(args.ac_space.shape[key])
    ELSE args.target_entropy[1]

\* C21: in the non-shared SAC policy a target entropy is available for
\* every agent key during setup: the setup raises nothing, every key it has
\* come to was given -prod(action shape of that agent) when target_entropy
\* is None and the given number otherwise, and at its end every key was.
C21_TargetEntropyForEveryKey ==
    (fn = "sac.__init__" /\ ~args.shared /\ locals.pc = "setup") =>
        /\ retval.raised = None
        /\ \A key \in DOMAIN locals.passed :
              locals.passed[key] = ExpectedEntropy(key)
        /\ retval.returned => DOMAIN locals.passed = Agents

\* what does hold: with target_entropy None every key is given its
\* heuristic; with a number the lookup of the first key raises TypeError and
\* no key is given a target entropy
TargetEntropyAsBuilt ==
    (fn = "sac.__init__" /\ ~args.shared /\ locals.pc = "setup") =>
        IF args.target_entropy = <<>>
        THEN /\ retval.raised = None
             /\ \A key \in DOMAIN locals.passed :
                   locals.passed[key] = -np_prod(args.ac_space.shape[key])
             /\ retval.returned => DOMAIN locals.passed = Agents
        ELSE /\ locals.passed = EmptyDict
             /\ retval.returned => retval.raised = "TypeError"

====
